---- MODULE Spec2Model ----
(***************************************************************************)
(* ssm2044~ : SSM2044 four-pole low-pass filter external (src/ssm2044~.c). *)
(*                                                                         *)
(* Number model.  A C double d is carried as the integer d * SCALE,        *)
(* rounded to the nearest (fixed point, three decimals), or as one of the  *)
(* three IEEE specials NaN, PINF, NINF.  Arithmetic on them follows        *)
(* IEEE-754: NaN is absorbing, every ordered comparison with NaN is false, *)
(* 0 * Inf = Inf - Inf = 0/0 = Inf/Inf = NaN, x/0 = +-Inf.  The one field  *)
(* that needs a finer grid, sr_inv = 1/sr, is carried in units of          *)
(* 1/INV_SCALE.  tanh and tan are computed by Pade approximants that keep  *)
(* what the filter uses of them: both are odd and monotone, tanh(0) = 0,   *)
(* |tanh| <= 1 with tanh(+-Inf) = +-1, tan(+-Inf) = NaN.                   *)
(***************************************************************************)
EXTENDS Integers, Sequences, FiniteSets, TLC

SCALE == 10^3
INV_SCALE == 10^8

PINF == 10^9
NINF == -PINF
NaN == 2 * PINF

IsNaN(a) == a = NaN
IsInf(a) == a = PINF \/ a = NINF
IsFinite(a) == ~IsNaN(a) /\ ~IsInf(a)

Abs(a) == IF a < 0 THEN -a ELSE a
Sgn(a) == IF a < 0 THEN -1 ELSE IF a > 0 THEN 1 ELSE 0
\* integer division rounding to the nearest, ties away from zero; d > 0
RDiv(a, d) == IF a >= 0 THEN (2 * a + d) \div (2 * d) ELSE -((2 * (-a) + d) \div (2 * d))

\* ---- the C operators on doubles ----------------------------------------
FGt(a, b) == ~IsNaN(a) /\ ~IsNaN(b) /\ a > b
FLt(a, b) == ~IsNaN(a) /\ ~IsNaN(b) /\ a < b
FLe(a, b) == ~IsNaN(a) /\ ~IsNaN(b) /\ a <= b

FNeg(a) == IF IsNaN(a) THEN NaN ELSE -a

FAdd(a, b) ==
    IF IsNaN(a) \/ IsNaN(b) THEN NaN
    ELSE IF IsInf(a) /\ IsInf(b) THEN (IF a = b THEN a ELSE NaN)
    ELSE IF IsInf(a) THEN a
    ELSE IF IsInf(b) THEN b
    ELSE a + b

FSub(a, b) == FAdd(a, FNeg(b))

\* a * b / SCALE without leaving 32 bits: the larger factor is split
MulMag(p, q) == (p \div SCALE) * q + RDiv((p % SCALE) * q, SCALE)

FMul(a, b) ==
    IF IsNaN(a) \/ IsNaN(b) THEN NaN
    ELSE IF IsInf(a) \/ IsInf(b)
         THEN (IF a = 0 \/ b = 0 THEN NaN
               ELSE IF Sgn(a) * Sgn(b) > 0 THEN PINF ELSE NINF)
    ELSE Sgn(a) * Sgn(b) *
         (IF Abs(a) >= Abs(b) THEN MulMag(Abs(a), Abs(b)) ELSE MulMag(Abs(b), Abs(a)))

FDiv(a, b) ==
    IF IsNaN(a) \/ IsNaN(b) THEN NaN
    ELSE IF IsInf(a) THEN (IF IsInf(b) THEN NaN
                           ELSE IF (a > 0) = (b >= 0) THEN PINF ELSE NINF)
    ELSE IF IsInf(b) THEN 0
    ELSE IF b = 0 THEN (IF a = 0 THEN NaN ELSE IF a > 0 THEN PINF ELSE NINF)
    ELSE Sgn(a) * Sgn(b) * RDiv(Abs(a) * SCALE, Abs(b))

\* fabs() of <math.h>
fabs(a) == IF IsNaN(a) THEN NaN ELSE Abs(a)

\* tanh() of <math.h>: Pade x(945 + 105x^2 + x^4)/(945 + 420x^2 + 15x^4)
\* on |x| < 4, never beyond +-1, and +-1 from |x| = 4 on
tanh(x) ==
    IF IsNaN(x) THEN NaN
    ELSE IF x >= 4 * SCALE THEN SCALE
    ELSE IF x <= -4 * SCALE THEN -SCALE
    ELSE LET x2 == RDiv(x * x, SCALE)
             x4 == RDiv(x2 * x2, SCALE)
             num == RDiv(945 * SCALE + 105 * x2 + x4, SCALE)
             den == RDiv(945 * SCALE + 420 * x2 + 15 * x4, SCALE)
             t == RDiv(x * num, den)
         IN  IF t > SCALE THEN SCALE ELSE IF t < -SCALE THEN -SCALE ELSE t

\* tan() of <math.h>: Pade x(105 - 10x^2)/(105 - 45x^2 + x^4), |x| < pi/2
tan(x) ==
    IF IsNaN(x) \/ IsInf(x) THEN NaN
    ELSE LET x2 == RDiv(x * x, SCALE)
             x4 == RDiv(x2 * x2, SCALE)
         IN  RDiv(x * (105 * SCALE - 10 * x2), 105 * SCALE - 45 * x2 + x4)


\* 1.0 / a, the result in units of 1/INV_SCALE (a is a whole number of Hz)
FRecip(a) ==
    IF IsNaN(a) THEN NaN
    ELSE IF IsInf(a) THEN 0
    ELSE IF a = 0 THEN PINF
    ELSE Sgn(a) * RDiv(INV_SCALE, Abs(a) \div SCALE)

\* a * inv for inv in units of 1/INV_SCALE
FMulInv(a, inv) ==
    IF IsNaN(a) \/ IsNaN(inv) THEN NaN
    ELSE IF IsInf(a) \/ IsInf(inv)
         THEN (IF a = 0 \/ inv = 0 THEN NaN
               ELSE IF Sgn(a) * Sgn(inv) > 0 THEN PINF ELSE NINF)
    ELSE Sgn(a) * Sgn(inv) *
         RDiv((Abs(a) \div SCALE) * Abs(inv), INV_SCALE \div SCALE)

\* ---- constants of the program ------------------------------------------
PI == 3142
\* 1e-15 lies below the grid: rounded up to its smallest positive value
DENORMAL_THRESHOLD == 1
RESONANCE_SCALE == 4 * SCALE
MAX_RESONANCE == 4 * SCALE
INPUT_DRIVE == (3 * SCALE) \div 2
FEEDBACK_DRIVE == 2 * SCALE

\* CLAMP(a, lo, hi) of the Max SDK: ((a) > (lo) ? ((a) < (hi) ? (a) : (hi)) : (lo))
CLAMP(a, lo, hi) == IF FGt(a, lo) THEN (IF FLt(a, hi) THEN a ELSE hi) ELSE lo

\* ---- denormal_fix -------------------------------------------------------
denormal_fix(value) ==
    IF FLt(fabs(value), DENORMAL_THRESHOLD) THEN 0 ELSE value

\* ---- soft_saturation ----------------------------------------------------
\* without the guard on drive
soft_saturation_unguarded(input, drive) == FDiv(tanh(FMul(input, drive)), drive)

\* without the tanh
soft_saturation_linear(input, drive) ==
    IF FLe(drive, 0) THEN input ELSE FDiv(FMul(input, drive), drive)

\* with a bias added to the tanh
soft_saturation_biased(input, drive) ==
    IF FLe(drive, 0) THEN input
    ELSE FDiv(FAdd(tanh(FMul(input, drive)), (5 * SCALE) \div 100), drive)

soft_saturation(input, drive) ==
    IF FLe(drive, 0) THEN input
    ELSE LET driven == FMul(input, drive)
             saturated == tanh(driven)
         IN  FDiv(saturated, drive)

\* ---- compute_filter_coefficients: the (g, k) it stores ------------------
\* without the clamp of g
compute_filter_coefficients_unclamped(x_sr, x_sr_inv, cutoff0, resonance0) ==
    LET cutoff1 == CLAMP(cutoff0, 20 * SCALE, FMul(x_sr, (45 * SCALE) \div 100))
        omega == FMul(FMul(2 * SCALE, PI), cutoff1)
        omega_warped == tan(FMul(FMulInv(omega, x_sr_inv), SCALE \div 2))
    IN  [g |-> FDiv(omega_warped, FAdd(SCALE, omega_warped)),
         k |-> FMul(resonance0, RESONANCE_SCALE)]

compute_filter_coefficients(x_sr, x_sr_inv, cutoff0, resonance0) ==
    LET cutoff1 == CLAMP(cutoff0, 20 * SCALE, FMul(x_sr, (45 * SCALE) \div 100))
        omega == FMul(FMul(2 * SCALE, PI), cutoff1)
        omega_warped == tan(FMul(FMulInv(omega, x_sr_inv), SCALE \div 2))
        g0 == FDiv(omega_warped, FAdd(SCALE, omega_warped))
    IN  [g |-> CLAMP(g0, 0, (99 * SCALE) \div 100),
         k |-> FMul(resonance0, RESONANCE_SCALE)]

\* ---- ssm2044_process_sample ---------------------------------------------
\* one pole moving twice as far towards its input
Stage_twice(state, g0, stage_in) ==
    FAdd(state, FMul(FMul(2 * SCALE, g0), FSub(stage_in, state)))

\* one pole: state + g * (in - state)
Stage(state, g0, stage_in) == FAdd(state, FMul(g0, FSub(stage_in, state)))

\* the feedback memory taken after a saturation of the output
StoreStages_saturated(g0, k0, stage1_out, stage2_out, stage3_out, stage4_out) ==
    [g |-> g0, k |-> k0,
     state1 |-> denormal_fix(stage1_out),
     state2 |-> denormal_fix(stage2_out),
     state3 |-> denormal_fix(stage3_out),
     state4 |-> denormal_fix(stage4_out),
     feedback_sample |-> soft_saturation(stage4_out, FEEDBACK_DRIVE),
     ret |-> stage4_out]

\* the fields the call writes and the value it returns
StoreStages(g0, k0, stage1_out, stage2_out, stage3_out, stage4_out) ==
    [g |-> g0, k |-> k0,
     state1 |-> denormal_fix(stage1_out),
     state2 |-> denormal_fix(stage2_out),
     state3 |-> denormal_fix(stage3_out),
     state4 |-> denormal_fix(stage4_out),
     feedback_sample |-> stage4_out,
     ret |-> stage4_out]

\* every stage fed from the stored state of the stage before it
Cascade_stored(x, g0, k0, saturated_input, saturated_feedback) ==
    LET fb_input == FAdd(saturated_input, FMul(k0, saturated_feedback))
        stage1_out == Stage(x.state1, g0, fb_input)
        stage2_out == Stage(x.state2, g0, x.state1)
        stage3_out == Stage(x.state3, g0, x.state2)
        stage4_out == Stage(x.state4, g0, x.state3)
    IN  StoreStages(g0, k0, stage1_out, stage2_out, stage3_out, stage4_out)

Cascade(x, g0, k0, saturated_input, saturated_feedback) ==
    LET fb_input == FAdd(saturated_input, FMul(k0, saturated_feedback))
        stage1_out == Stage(x.state1, g0, fb_input)
        stage2_out == Stage(x.state2, g0, stage1_out)
        stage3_out == Stage(x.state3, g0, stage2_out)
        stage4_out == Stage(x.state4, g0, stage3_out)
    IN  StoreStages(g0, k0, stage1_out, stage2_out, stage3_out, stage4_out)

\* x: the fields of t_ssm2044 the call reads
ssm2044_process_sample(x, input, cutoff0, resonance0, gain0) ==
    LET c == compute_filter_coefficients(x.sr, x.sr_inv, cutoff0, resonance0)
        scaled_input == FMul(input, gain0)
        saturated_input == soft_saturation(scaled_input, INPUT_DRIVE)
        saturated_feedback == soft_saturation(x.feedback_sample, FEEDBACK_DRIVE)
    IN  Cascade(x, c.g, c.k, saturated_input, saturated_feedback)

\* ---- bounds and input sets ----------------------------------------------
\* the number of operations (dsp64 calls, messages, frames) of one behaviour
MaxOps == 3

Hz(f) == f * SCALE

\* sys_getsr(): the rate the host runs at when the object is made
HostRates == {Hz(44100)}
\* the samplerate argument of dsp64, as the host may report it
ReportedRates == {Hz(48000), 0, Hz(-44100)}
\* count[1..3] of dsp64: the number of signals connected to inlets 1..3
Counts == {<< 1, 0, 0 >>, << 1, 2, 1 >>}
\* the samples the four signal inlets may carry
AudioSamples == {SCALE, NaN}
CutoffSamples == {Hz(50000), NaN}
ResonanceSamples == {-SCALE, 4 * SCALE}
GainSamples == {PINF}
\* the values of float and int messages, and the inlets they arrive at
FloatValues == {Hz(50000)}
IntValues == {-1}
Inlets == 0 .. 3
\* typed-in arguments of the object box
Atom(t, v) == [type |-> t, value |-> v]
CreationArgs ==
    { << >>,
      << Atom("A_FLOAT", Hz(50000)), Atom("A_FLOAT", -SCALE), Atom("A_LONG", 9) >>,
      << Atom("A_SYM", 0), Atom("A_FLOAT", 2 * SCALE) >> }

\* sustained processing: the operations of one behaviour, the block size,
\* the host's rate and connections, and the frames <<audio, cutoff,
\* resonance, gain>> the inlets carry
MaxRun == 9
RunBlock == 3
RunRates == {Hz(48000)}
RunCounts == {<< 1, 1, 1 >>}
RunFrames ==
    { << SCALE, Hz(20000), 4 * SCALE, 4 * SCALE >>,
      << -SCALE, Hz(20000), 4 * SCALE, SCALE >>,
      << 0, Hz(20000), SCALE \div 2, SCALE >> }

\* one block against the same block in two calls: the events before the
\* block, the longest block, the connection counts and the frames
MaxSplit == 2
MaxSplitLen == 3
SplitCounts == {<< 0, 1, 0 >>, << 1, 0, 1 >>}
SplitFrames ==
    { << SCALE, Hz(1000), 3 * SCALE, 2 * SCALE >>,
      << -SCALE \div 2, Hz(20000), 4 * SCALE, SCALE >> }

\* calls of perform64 of any length: the longest block and the frames of
\* one behaviour
MaxBlock == 3
MaxBlockRun == 5

\* the input going silent: the object [ssm2044~ 20000], nothing connected
\* to its parameter inlets, MaxLoud frames of any of LoudSamples and then
\* up to MaxQuiet frames of silence
MaxLoud == 3
MaxQuiet == 24
\* the samples of silence after which the filter is to be at rest
SettleBound == 20
QuietArgs == << Atom("A_LONG", 20000) >>
LoudSamples == {SCALE, -SCALE, 0}

\* a unit impulse into the object [ssm2044~ cutoff 0 1]: resonance 0, so
\* k = 0, gain 1, one sample of 1.0 and then zeros, MaxImpulse frames in all
MaxImpulse == 12
ImpulseCutoffs ==
    {Hz(20), Hz(1000), Hz(3000), Hz(5000), Hz(8000), Hz(11025), Hz(15000),
     Hz(17500), Hz(18000), Hz(20000)}
ImpulseArgs(c) == << Atom("A_FLOAT", c), Atom("A_LONG", 0), Atom("A_LONG", 1) >>

\* control events: MaxCtl messages and frames, the values of the float and
\* int messages inside and outside the ranges of the three parameters
MaxCtl == 3
CtlFloats == {Hz(50000), Hz(440), 2 * SCALE, SCALE \div 4, -SCALE}
CtlInts == {50000, 440, 2, -1}

\* silence from the start: MaxSilence operations, frames whose product
\* input * gain is zero (a silent input, or a gain of zero), cutoffs and
\* resonances at both ends of their ranges
MaxSilence == 3
SilenceAudio == {0, SCALE}
SilenceCutoffs == {Hz(20), Hz(20000)}
SilenceResonances == {0, 4 * SCALE}
SilenceGains == {0, 4 * SCALE}

\* a change of sample rate while audio runs: MaxRace operations, the rates
\* the host may change to
MaxRace == 5
RaceRates == {Hz(44100), Hz(48000), Hz(96000)}

\* inputs of the saturation function taken alone
SatInputs == {i * (SCALE \div 4) : i \in -12 .. 12} \cup {NaN, PINF, NINF}
SatDrives == {-SCALE, 0, SCALE \div 2, SCALE, INPUT_DRIVE, FEEDBACK_DRIVE, 4 * SCALE}

\* inputs of the coefficient computation taken alone: positive sample rates,
\* the audio rates and a rate of 40 Hz below them, and cutoffs over the
\* whole range of the resolver, the points where the cutoff meets 0.45 * sr
\* among them
CoefRates == {Hz(40), Hz(11025), Hz(44100), Hz(48000), Hz(96000)}
CoefCutoffs ==
    {Hz(20), Hz(100), Hz(4961), Hz(4962), Hz(19844), Hz(19845), Hz(19846)}
        \cup {Hz(500 * i) : i \in 1 .. 40}

VARIABLES
    state1, state2, state3, state4, feedback_sample,   \* t_ssm2044
    sr, sr_inv,
    cutoff_float, resonance_float, gain_float,
    cutoff_has_signal, resonance_has_signal, gain_has_signal,
    g, k,
    pc, n,                                  \* perform64: where it is, frames left
    audio, cutoff, resonance, gain,         \* perform64: locals of the frame
    filtered,                               \* what process_sample returned
    in_cutoff, in_resonance, in_gain,       \* *cutoff_in, *resonance_in, *gain_in
    out,                                    \* the sample last written to outs[0]
    samples, ops,                           \* frames processed, operations so far
    silent,                                 \* the last frames of silence at resonance 0.5
    sat_input, sat_drive, sat_result, sat_calls,  \* soft_saturation taken alone
    co_sr, co_cutoff, co_g, co_calls,       \* compute_filter_coefficients taken alone
    dsp_pc,                                 \* dsp64: where it is
    sp_frames, sp_m, sp_one, sp_two, sp_calls,  \* perform64 in one call and in two
    entry                                   \* history of the perform64 call in
                                            \* progress: sampleframes and the
                                            \* frames processed since entry

obj == << state1, state2, state3, state4, feedback_sample, sr, sr_inv,
          cutoff_float, resonance_float, gain_float,
          cutoff_has_signal, resonance_has_signal, gain_has_signal, g, k >>
filt == << state1, state2, state3, state4, feedback_sample, g, k >>
held == << cutoff_float, resonance_float, gain_float >>
flags == << cutoff_has_signal, resonance_has_signal, gain_has_signal >>
frame == << audio, cutoff, resonance, gain, in_cutoff, in_resonance, in_gain,
           filtered, out >>
sat == << sat_input, sat_drive, sat_result, sat_calls >>
coef == << co_sr, co_cutoff, co_g, co_calls >>
split == << sp_frames, sp_m, sp_one, sp_two, sp_calls >>
vars == << obj, pc, n, frame, samples, ops, silent, sat, coef, entry, dsp_pc, split >>

\* atom_gettype(a) == A_FLOAT || atom_gettype(a) == A_LONG
IsNumber(a) == a.type = "A_FLOAT" \/ a.type = "A_LONG"
\* atom_getfloat: a long is converted to double
atom_getfloat(a) == IF a.type = "A_LONG" THEN a.value * SCALE ELSE a.value

\* ---- ssm2044_new --------------------------------------------------------
\* taking the parameter inlets for connected, and the resonance off
ssm2044_new_connected(rate, argv) ==
    /\ sr = rate
    /\ sr_inv = FRecip(rate)
    /\ state1 = 0 /\ state2 = 0 /\ state3 = 0 /\ state4 = 0
    /\ feedback_sample = 0
    /\ cutoff_float =
         IF Len(argv) >= 1 /\ IsNumber(argv[1])
         THEN CLAMP(atom_getfloat(argv[1]), Hz(20), Hz(20000)) ELSE Hz(1000)
    /\ resonance_float =
         IF Len(argv) >= 2 /\ IsNumber(argv[2])
         THEN CLAMP(atom_getfloat(argv[2]), 0, 4 * SCALE) ELSE 0
    /\ gain_float =
         IF Len(argv) >= 3 /\ IsNumber(argv[3])
         THEN CLAMP(atom_getfloat(argv[3]), 0, 4 * SCALE) ELSE SCALE
    /\ cutoff_has_signal = 1 /\ resonance_has_signal = 1 /\ gain_has_signal = 1
    /\ g = 0 /\ k = 0

ssm2044_new(rate, argv) ==
    /\ sr = rate
    /\ sr_inv = FRecip(rate)
    /\ state1 = 0 /\ state2 = 0 /\ state3 = 0 /\ state4 = 0
    /\ feedback_sample = 0
    /\ cutoff_float =
         IF Len(argv) >= 1 /\ IsNumber(argv[1])
         THEN CLAMP(atom_getfloat(argv[1]), Hz(20), Hz(20000)) ELSE Hz(1000)
    /\ resonance_float =
         IF Len(argv) >= 2 /\ IsNumber(argv[2])
         THEN CLAMP(atom_getfloat(argv[2]), 0, 4 * SCALE) ELSE SCALE \div 2
    /\ gain_float =
         IF Len(argv) >= 3 /\ IsNumber(argv[3])
         THEN CLAMP(atom_getfloat(argv[3]), 0, 4 * SCALE) ELSE SCALE
    /\ cutoff_has_signal = 0 /\ resonance_has_signal = 0 /\ gain_has_signal = 0
    /\ g = 0 /\ k = 0

\* no perform64 call is in progress
NoEntry == [sampleframes |-> 0, frames |-> 0]

NoFrame ==
    /\ pc = "idle" /\ n = 0
    /\ audio = 0 /\ cutoff = 0 /\ resonance = 0 /\ gain = 0
    /\ in_cutoff = 0 /\ in_resonance = 0 /\ in_gain = 0
    /\ filtered = 0 /\ out = 0
    /\ samples = 0 /\ ops = 0 /\ silent = 0
    /\ entry = NoEntry
    /\ dsp_pc = "idle"

\* no block processed: no object, no output samples
NoBlock == [x |-> << >>, outs |-> << >>]

NoSat ==
    /\ sat_input = 0 /\ sat_drive = 0 /\ sat_result = 0 /\ sat_calls = 0
    /\ co_sr = 0 /\ co_cutoff = 0 /\ co_g = 0 /\ co_calls = 0
    /\ sp_frames = << >> /\ sp_m = 0 /\ sp_one = NoBlock /\ sp_two = NoBlock
    /\ sp_calls = 0

Init ==
    /\ \E rate \in HostRates, argv \in CreationArgs : ssm2044_new(rate, argv)
    /\ NoFrame
    /\ NoSat

\* ---- ssm2044_dsp64 ------------------------------------------------------
ssm2044_dsp64(samplerate, count) ==
    /\ pc = "idle"
    /\ sr' = samplerate
    /\ sr_inv' = FRecip(samplerate)
    /\ cutoff_has_signal' = count[1]
    /\ resonance_has_signal' = count[2]
    /\ gain_has_signal' = count[3]
    /\ ops' = ops + 1
    /\ UNCHANGED << filt, held, pc, n, frame, samples, silent, sat, coef, entry, dsp_pc, split >>

\* dsp64 called while the signal chain is running: its writes are plain
\* stores and the audio thread may run between any two of them.  First
\* x->sr = samplerate ...
ssm2044_dsp64_rate(samplerate) ==
    /\ dsp_pc = "idle"
    /\ sr' = samplerate
    /\ dsp_pc' = "rate_stored"
    /\ ops' = ops + 1
    /\ UNCHANGED << filt, sr_inv, held, flags, pc, n, frame, samples, silent, sat, coef, entry, split >>

\* ... then x->sr_inv = 1.0 / samplerate and the three flags
ssm2044_dsp64_rest(count) ==
    /\ dsp_pc = "rate_stored"
    /\ sr_inv' = FRecip(sr)
    /\ cutoff_has_signal' = count[1]
    /\ resonance_has_signal' = count[2]
    /\ gain_has_signal' = count[3]
    /\ dsp_pc' = "idle"
    /\ UNCHANGED << filt, sr, held, pc, n, frame, samples, ops, silent, sat, coef, entry, split >>

\* ---- ssm2044_perform64 --------------------------------------------------
\* x->cutoff_has_signal ? *cutoff_in++ : x->cutoff_float, and its like
Resolve_held(has_signal, stream_sample, held_float) == held_float

Resolve(has_signal, stream_sample, held_float) ==
    IF has_signal # 0 THEN stream_sample ELSE held_float

\* entry: long n = sampleframes
PerformEnter(sampleframes) ==
    /\ pc = "idle"
    /\ pc' = "perform"
    /\ n' = sampleframes
    /\ entry' = [sampleframes |-> sampleframes, frames |-> 0]
    /\ UNCHANGED << obj, frame, samples, ops, silent, sat, coef, dsp_pc, split >>

\* one turn of while (n--): the frame's samples a, c, r, gn are those at the
\* four input pointers
PerformFrame(a, c, r, gn) ==
    /\ pc = "perform"
    /\ n > 0
    /\ LET cutoff0 == Resolve(cutoff_has_signal, c, cutoff_float)
           resonance0 == Resolve(resonance_has_signal, r, resonance_float)
           gain0 == Resolve(gain_has_signal, gn, gain_float)
           cutoff1 == CLAMP(cutoff0, Hz(20), Hz(20000))
           resonance1 == CLAMP(resonance0, 0, MAX_RESONANCE)
           gain1 == CLAMP(gain0, 0, 4 * SCALE)
           x == [state1 |-> state1, state2 |-> state2, state3 |-> state3,
                 state4 |-> state4, feedback_sample |-> feedback_sample,
                 sr |-> sr, sr_inv |-> sr_inv]
       IN \E y \in {ssm2044_process_sample(x, a, cutoff1, resonance1, gain1)} :
           /\ audio' = a
           \* a pointer is read and advanced only when its inlet has a signal
           /\ in_cutoff' = IF cutoff_has_signal # 0 THEN c ELSE in_cutoff
           /\ in_resonance' = IF resonance_has_signal # 0 THEN r ELSE in_resonance
           /\ in_gain' = IF gain_has_signal # 0 THEN gn ELSE in_gain
           /\ cutoff' = cutoff1 /\ resonance' = resonance1 /\ gain' = gain1
           /\ g' = y.g /\ k' = y.k
           /\ state1' = y.state1 /\ state2' = y.state2
           /\ state3' = y.state3 /\ state4' = y.state4
           /\ feedback_sample' = y.feedback_sample
           /\ filtered' = y.ret
           /\ out' = denormal_fix(y.ret)
    /\ n' = n - 1
    /\ samples' = samples + 1
    /\ silent' = IF a = 0 /\ resonance' = SCALE \div 2 THEN silent + 1 ELSE 0
    /\ ops' = ops + 1
    /\ entry' = [entry EXCEPT !.frames = @ + 1]
    /\ UNCHANGED << sr, sr_inv, held, flags, pc, sat, coef, dsp_pc, split >>

\* returning whatever n is
PerformReturn_early ==
    /\ pc = "perform"
    /\ pc' = "idle"
    /\ entry' = NoEntry
    /\ UNCHANGED << obj, n, frame, samples, ops, silent, sat, coef, dsp_pc, split >>

\* while (n--) finds n = 0: the routine returns
PerformReturn ==
    /\ pc = "perform"
    /\ n = 0
    /\ pc' = "idle"
    /\ entry' = NoEntry
    /\ UNCHANGED << obj, n, frame, samples, ops, silent, sat, coef, dsp_pc, split >>

\* ---- ssm2044_perform64 as a function of the object and the block --------
\* x: the object; ins: the frames << audio, cutoff, resonance, gain >> at the
\* four input pointers; the result: the object left behind and the samples
\* written to outs[0]
ThisObject ==
    [state1 |-> state1, state2 |-> state2, state3 |-> state3, state4 |-> state4,
     feedback_sample |-> feedback_sample, sr |-> sr, sr_inv |-> sr_inv,
     cutoff_float |-> cutoff_float, resonance_float |-> resonance_float,
     gain_float |-> gain_float, cutoff_has_signal |-> cutoff_has_signal,
     resonance_has_signal |-> resonance_has_signal,
     gain_has_signal |-> gain_has_signal, g |-> g, k |-> k]

\* the object after a process_sample call that wrote y, and the sample out
FrameStored(x, y) ==
    [x |-> [x EXCEPT !.state1 = y.state1, !.state2 = y.state2,
                     !.state3 = y.state3, !.state4 = y.state4,
                     !.feedback_sample = y.feedback_sample,
                     !.g = y.g, !.k = y.k],
     out |-> denormal_fix(y.ret)]

\* one turn of while (n--)
FrameOf(x, f) ==
    FrameStored(x, ssm2044_process_sample(x, f[1],
        CLAMP(Resolve(x.cutoff_has_signal, f[2], x.cutoff_float), Hz(20), Hz(20000)),
        CLAMP(Resolve(x.resonance_has_signal, f[3], x.resonance_float), 0, MAX_RESONANCE),
        CLAMP(Resolve(x.gain_has_signal, f[4], x.gain_float), 0, 4 * SCALE)))

\* the sample of a turn put before what the later turns wrote
OutThen(sample, rest) == [x |-> rest.x, outs |-> << sample >> \o rest.outs]

RECURSIVE PerformLoop(_, _)
LoopAfter(turn, ins) == OutThen(turn.out, PerformLoop(turn.x, ins))

PerformLoop(x, ins) ==
    IF ins = << >> THEN [x |-> x, outs |-> << >>]
    ELSE LoopAfter(FrameOf(x, Head(ins)), Tail(ins))

\* a perform64 that clears the feedback memory on entry
perform64_reset(x, ins) == PerformLoop([x EXCEPT !.feedback_sample = 0], ins)

perform64(x, ins) == PerformLoop(x, ins)

\* a second call on the object the first one left, its samples after the
\* first one's
OutsJoined(first, second) == [x |-> second.x, outs |-> first.outs \o second.outs]

CallAfter(first, ins) == OutsJoined(first, perform64(first.x, ins))

\* the same frames processed in one call, and in two calls of m and
\* Len(ins) - m frames
SplitCall(ins, m) ==
    /\ pc = "idle"
    /\ sp_calls = 0
    /\ sp_frames' = ins
    /\ sp_m' = m
    /\ sp_one' = perform64(ThisObject, ins)
    /\ sp_two' = CallAfter(perform64(ThisObject, SubSeq(ins, 1, m)),
                           SubSeq(ins, m + 1, Len(ins)))
    /\ sp_calls' = 1
    /\ UNCHANGED << obj, pc, n, frame, samples, ops, silent, sat, coef, entry, dsp_pc >>

\* ---- ssm2044_float, ssm2044_int ------------------------------------------
\* a float taking its inlet for one with no signal connected
ssm2044_float_marks(inlet, f) ==
    /\ cutoff_float' = IF inlet = 1 THEN CLAMP(f, Hz(20), Hz(20000)) ELSE cutoff_float
    /\ resonance_float' = IF inlet = 2 THEN CLAMP(f, 0, MAX_RESONANCE) ELSE resonance_float
    /\ gain_float' = IF inlet = 3 THEN CLAMP(f, 0, 4 * SCALE) ELSE gain_float
    /\ cutoff_has_signal' = IF inlet = 1 THEN 0 ELSE cutoff_has_signal
    /\ resonance_has_signal' = IF inlet = 2 THEN 0 ELSE resonance_has_signal
    /\ gain_has_signal' = IF inlet = 3 THEN 0 ELSE gain_has_signal
    /\ ops' = ops + 1
    /\ UNCHANGED << filt, sr, sr_inv, pc, n, frame, samples, silent, sat, coef, entry, dsp_pc, split >>

\* a float stored as it comes
ssm2044_float_unclamped(inlet, f) ==
    /\ cutoff_float' = IF inlet = 1 THEN f ELSE cutoff_float
    /\ resonance_float' = IF inlet = 2 THEN f ELSE resonance_float
    /\ gain_float' = IF inlet = 3 THEN f ELSE gain_float
    /\ ops' = ops + 1
    /\ UNCHANGED << filt, sr, sr_inv, flags, pc, n, frame, samples, silent, sat, coef, entry, dsp_pc, split >>

ssm2044_float(inlet, f) ==
    /\ cutoff_float' = IF inlet = 1 THEN CLAMP(f, Hz(20), Hz(20000)) ELSE cutoff_float
    /\ resonance_float' = IF inlet = 2 THEN CLAMP(f, 0, MAX_RESONANCE) ELSE resonance_float
    /\ gain_float' = IF inlet = 3 THEN CLAMP(f, 0, 4 * SCALE) ELSE gain_float
    /\ ops' = ops + 1
    /\ UNCHANGED << filt, sr, sr_inv, flags, pc, n, frame, samples, silent, sat, coef, entry, dsp_pc, split >>

\* an int taken as it is, with no conversion to double
ssm2044_int_raw(inlet, m) ==
    /\ cutoff_float' = IF inlet = 1 THEN CLAMP(m, Hz(20), Hz(20000)) ELSE cutoff_float
    /\ resonance_float' = IF inlet = 2 THEN CLAMP(m, 0, MAX_RESONANCE) ELSE resonance_float
    /\ gain_float' = IF inlet = 3 THEN CLAMP(m, 0, 4 * SCALE) ELSE gain_float
    /\ ops' = ops + 1
    /\ UNCHANGED << filt, sr, sr_inv, flags, pc, n, frame, samples, silent, sat, coef, entry, dsp_pc, split >>

ssm2044_int(inlet, m) ==
    /\ cutoff_float' = IF inlet = 1 THEN CLAMP(m * SCALE, Hz(20), Hz(20000)) ELSE cutoff_float
    /\ resonance_float' = IF inlet = 2 THEN CLAMP(m * SCALE, 0, MAX_RESONANCE) ELSE resonance_float
    /\ gain_float' = IF inlet = 3 THEN CLAMP(m * SCALE, 0, 4 * SCALE) ELSE gain_float
    /\ ops' = ops + 1
    /\ UNCHANGED << filt, sr, sr_inv, flags, pc, n, frame, samples, silent, sat, coef, entry, dsp_pc, split >>

\* ---- soft_saturation called on its own ---------------------------------
SaturationCall(input, drive) ==
    /\ sat_input' = input
    /\ sat_drive' = drive
    /\ sat_result' = soft_saturation(input, drive)
    /\ sat_calls' = 1
    /\ UNCHANGED << obj, pc, n, frame, samples, ops, silent, coef, entry, dsp_pc, split >>

\* ---- compute_filter_coefficients called on its own ---------------------
CoefficientCall(rate, cutoff0) ==
    /\ co_sr' = rate
    /\ co_cutoff' = cutoff0
    /\ co_g' = compute_filter_coefficients(rate, FRecip(rate), cutoff0, 0).g
    /\ co_calls' = 1
    /\ UNCHANGED << obj, pc, n, frame, samples, ops, silent, sat, entry, dsp_pc, split >>

\* ---- the program: any host, any patch, MaxOps operations ----------------
Next ==
    \/ /\ ops < MaxOps
       /\ \E rate \in ReportedRates, count \in Counts : ssm2044_dsp64(rate, count)
    \/ \E sampleframes \in 0 .. MaxOps - ops : PerformEnter(sampleframes)
    \/ \E a \in AudioSamples, c \in CutoffSamples, r \in ResonanceSamples,
          gn \in GainSamples : PerformFrame(a, c, r, gn)
    \/ PerformReturn
    \/ /\ ops < MaxOps
       /\ \E inlet \in Inlets, f \in FloatValues : ssm2044_float(inlet, f)
    \/ /\ ops < MaxOps
       /\ \E inlet \in Inlets, m \in IntValues : ssm2044_int(inlet, m)

Spec == Init /\ [][Next]_vars

\* ---- sustained processing: real-valued audio in [-1, 1], parameters in ---
\* ---- their ranges, MaxRun operations -------------------------------------
NextRun ==
    \/ /\ ops < MaxRun
       /\ \E rate \in RunRates, count \in RunCounts : ssm2044_dsp64(rate, count)
    \/ /\ ops + RunBlock <= MaxRun
       /\ PerformEnter(RunBlock)
    \/ \E f \in RunFrames : PerformFrame(f[1], f[2], f[3], f[4])
    \/ PerformReturn

InitRun ==
    /\ \E rate \in HostRates : ssm2044_new(rate, << >>)
    /\ NoFrame
    /\ NoSat

SpecRun == InitRun /\ [][NextRun]_vars

\* ---- calls of perform64 with any number of frames from 0 to MaxBlock, ----
\* ---- MaxBlockRun frames in all ------------------------------------------
NextBlock ==
    \/ \E sampleframes \in 0 .. MaxBlock :
          /\ ops + sampleframes <= MaxBlockRun
          /\ PerformEnter(sampleframes)
    \/ \E f \in RunFrames : PerformFrame(f[1], f[2], f[3], f[4])
    \/ PerformReturn

\* a turn of while (n--), seen on n alone
LoopTurn == pc = "perform" /\ n > 0 /\ n' = n - 1

\* the audio thread, once in perform64, keeps running: the loop takes its
\* next turn and the routine returns when the loop is over
FairBlock == WF_n(LoopTurn) /\ WF_vars(PerformReturn)

SpecBlock == InitRun /\ [][NextBlock]_vars /\ FairBlock

\* ---- the input goes silent and stays silent ------------------------------
NextQuiet ==
    \/ /\ ops + RunBlock <= MaxLoud + MaxQuiet
       /\ PerformEnter(RunBlock)
    \/ \E a \in (IF ops < MaxLoud THEN LoudSamples ELSE {0}) : PerformFrame(a, 0, 0, 0)
    \/ PerformReturn

InitQuiet ==
    /\ \E rate \in HostRates : ssm2044_new(rate, QuietArgs)
    /\ NoFrame
    /\ NoSat

SpecQuiet == InitQuiet /\ [][NextQuiet]_vars

\* ---- a unit impulse and then silence, the feedback off -------------------
NextImpulse ==
    \/ /\ ops + RunBlock <= MaxImpulse
       /\ PerformEnter(RunBlock)
    \/ PerformFrame(IF samples = 0 THEN SCALE ELSE 0, 0, 0, 0)
    \/ PerformReturn

InitImpulse ==
    /\ \E rate \in HostRates, c \in ImpulseCutoffs : ssm2044_new(rate, ImpulseArgs(c))
    /\ NoFrame
    /\ NoSat

SpecImpulse == InitImpulse /\ [][NextImpulse]_vars

\* ---- float and int messages at any inlet, between frames of audio --------
NextCtl ==
    \/ /\ ops < MaxCtl
       /\ \E inlet \in Inlets, f \in CtlFloats : ssm2044_float(inlet, f)
    \/ /\ ops < MaxCtl
       /\ \E inlet \in Inlets, m \in CtlInts : ssm2044_int(inlet, m)
    \/ /\ ops < MaxCtl
       /\ PerformEnter(1)
    \/ PerformFrame(SCALE, 0, 0, 0)
    \/ PerformReturn

SpecCtl == Init /\ [][NextCtl]_vars

\* ---- silence from construction on: every frame has input * gain = 0 ------
SilentFrame(a, c, r, gn) ==
    /\ FMul(a, CLAMP(Resolve(gain_has_signal, gn, gain_float), 0, 4 * SCALE)) = 0
    /\ PerformFrame(a, c, r, gn)

NextSilence ==
    \/ /\ ops < MaxSilence
       /\ \E rate \in ReportedRates, count \in Counts : ssm2044_dsp64(rate, count)
    \/ \E sampleframes \in 0 .. MaxSilence - ops : PerformEnter(sampleframes)
    \/ \E a \in SilenceAudio, c \in SilenceCutoffs, r \in SilenceResonances,
          gn \in SilenceGains : SilentFrame(a, c, r, gn)
    \/ PerformReturn
    \/ /\ ops < MaxSilence
       /\ \E inlet \in Inlets, m \in IntValues : ssm2044_int(inlet, m)

SpecSilence == Init /\ [][NextSilence]_vars

\* ---- dsp64 on the control thread while perform64 runs on the audio ------
\* ---- thread ---------------------------------------------------------------
\* one block processed whole and split in two, on an object that dsp64 and
\* earlier one-frame blocks have brought to any state
NextSplit ==
    \/ /\ sp_calls = 0 /\ ops < MaxSplit
       /\ \E rate \in RunRates, count \in SplitCounts : ssm2044_dsp64(rate, count)
    \/ /\ sp_calls = 0 /\ ops < MaxSplit
       /\ PerformEnter(1)
    \/ \E f \in SplitFrames : PerformFrame(f[1], f[2], f[3], f[4])
    \/ PerformReturn
    \/ \E len \in 0 .. MaxSplitLen :
          \E ins \in [1 .. len -> SplitFrames], m \in 0 .. len : SplitCall(ins, m)

SpecSplit == Init /\ [][NextSplit]_vars

NextRace ==
    \/ /\ ops < MaxRace
       /\ \E rate \in RaceRates : ssm2044_dsp64_rate(rate)
    \/ \E count \in RunCounts : ssm2044_dsp64_rest(count)
    \/ /\ ops + RunBlock <= MaxRace
       /\ PerformEnter(RunBlock)
    \/ \E f \in RunFrames : PerformFrame(f[1], f[2], f[3], f[4])
    \/ PerformReturn

SpecRace == InitRun /\ [][NextRace]_vars

\* ---- the saturation function on its own ---------------------------------
NextSat == \E input \in SatInputs, drive \in SatDrives : SaturationCall(input, drive)

SpecSat == InitRun /\ [][NextSat]_vars

\* ---- the coefficient computation on its own -----------------------------
NextCoef == \E rate \in CoefRates, cutoff0 \in CoefCutoffs : CoefficientCall(rate, cutoff0)

SpecCoef == InitRun /\ [][NextCoef]_vars


(***************************************************************************)
(* Properties                                                              *)
(***************************************************************************)
AllStates == {state1, state2, state3, state4, feedback_sample}

\* the value v brought into [lo, hi]; a NaN is brought to lo
Clip(v, lo, hi) ==
    IF IsNaN(v) THEN lo ELSE IF v < lo THEN lo ELSE IF v > hi THEN hi ELSE v

\* C1: after construction and after every coefficient computation, whatever
\* the cutoff, the resonance and the sample rate reported, the stored
\* integrator gain g is a number in [0, 0.99].
C1_IntegratorGainInRange == IsFinite(g) /\ g >= 0 /\ 100 * g <= 99 * SCALE

\* a sample was processed under a sample rate that is not positive, and g
\* is a positive gain all the same
C1_Witness == samples > 0 /\ sr <= 0 /\ g > 0

\* C2: the stored feedback gain k never exceeds the ceiling 4.0.
C2_FeedbackGainCapped == IsFinite(k) /\ k <= 4 * SCALE

\* C3: after every processed sample the four pole states and the feedback
\* memory are finite numbers.
C3_StateFinite == samples > 0 => \A v \in AllStates : IsFinite(v)

\* C4: the stored sample rate is strictly positive and its stored reciprocal
\* is finite, after construction and after every dsp64 call.
C4_SampleRateValid == IsFinite(sr) /\ sr > 0 /\ IsFinite(sr_inv)

\* C5: in every frame of perform64 each of cutoff, resonance and gain, as
\* passed to process_sample, is the frame's stream sample when the
\* parameter's streaming flag is set and the held scalar otherwise, brought
\* into [20, 20000] for cutoff and [0, 4] for resonance and gain; the
\* coefficients of the frame are computed from these values.
C5_ResolverSelectsAndClamps ==
    [][ samples' = samples + 1 =>
          /\ cutoff' = Clip(IF cutoff_has_signal # 0 THEN in_cutoff' ELSE cutoff_float,
                            20 * SCALE, 20000 * SCALE)
          /\ resonance' = Clip(IF resonance_has_signal # 0 THEN in_resonance'
                               ELSE resonance_float, 0, 4 * SCALE)
          /\ gain' = Clip(IF gain_has_signal # 0 THEN in_gain' ELSE gain_float,
                          0, 4 * SCALE)
          /\ k' = 4 * resonance' ]_vars

\* a frame whose cutoff stream carries 50000 and whose resonance stream
\* carries -1: they were resolved to 20000 and 0, the gain to its stream too
C5_Witness ==
    /\ samples > 0
    /\ cutoff_has_signal # 0 /\ in_cutoff = 50000 * SCALE /\ cutoff = 20000 * SCALE
    /\ resonance_has_signal # 0 /\ in_resonance = -SCALE /\ resonance = 0
    /\ gain_has_signal # 0 /\ in_gain = PINF /\ gain = 4 * SCALE

\* C6: every output sample written by perform64 has magnitude at most 1.0.
C6_OutputInUnitRange == samples > 0 => IsFinite(out) /\ Abs(out) <= SCALE

\* C7: after SettleBound samples of zero input at resonance 0.5 the four
\* pole states and the feedback memory are exactly zero.
C7_SilenceSettles == silent >= SettleBound => \A v \in AllStates : v = 0

\* the largest feedback gain, k_max = MAX_RESONANCE * RESONANCE_SCALE, and the
\* bound B = 1/INPUT_DRIVE + k_max/FEEDBACK_DRIVE
KMax == (MAX_RESONANCE * RESONANCE_SCALE) \div SCALE
BoundB == RDiv(SCALE * SCALE, INPUT_DRIVE) + RDiv(KMax * SCALE, FEEDBACK_DRIVE)

\* C8: for real-valued audio and parameters in their ranges, resonance 4
\* included, every pole state and the feedback memory stay within B: the
\* state never diverges.
C8_StateBounded == \A v \in AllStates : IsFinite(v) /\ Abs(v) <= BoundB

\* at resonance 4 the fourth pole has come within 1/INPUT_DRIVE of the bound
C8_Witness ==
    /\ samples > 0 /\ resonance = 4 * SCALE
    /\ Abs(state4) + RDiv(SCALE * SCALE, INPUT_DRIVE) > BoundB

\* C9: soft_saturation returns its input unchanged whenever drive <= 0, and
\* returns exactly 0 for input 0 with every positive drive.
C9_SaturationIdentityAndZero ==
    sat_calls > 0 =>
        /\ (sat_drive <= 0 => sat_result = sat_input)
        /\ (sat_drive > 0 /\ sat_input = 0 => sat_result = 0)

\* a nonzero input came back unchanged from a call with drive <= 0
C9_Witness ==
    sat_calls > 0 /\ sat_drive <= 0 /\ sat_input # 0 /\ sat_result = sat_input

\* C10: for every input and every drive > 0 the saturation function returns
\* (tanh(input*drive) + 0.05 * tanh(input*drive*0.5)^2) / drive.
C10_EvenHarmonic ==
    sat_calls > 0 /\ sat_drive > 0 /\ IsFinite(sat_input) =>
        LET driven == FMul(sat_input, sat_drive)
            half == tanh(FMul(driven, SCALE \div 2))
            harmonic == FMul((5 * SCALE) \div 100, FMul(half, half))
        IN  sat_result = FDiv(FAdd(tanh(driven), harmonic), sat_drive)

C12_PerformProcessesAllFrames ==
    /\ [](pc = "perform" => n >= 0 /\ entry.frames + n = entry.sampleframes)
    /\ [][ /\ (samples' = samples + 1 =>
                 LET x == [state1 |-> state1, state2 |-> state2, state3 |-> state3,
                           state4 |-> state4, feedback_sample |-> feedback_sample,
                           sr |-> sr, sr_inv |-> sr_inv]
                     y == ssm2044_process_sample(x, audio', cutoff', resonance', gain')
                 IN  /\ pc = "perform" /\ n' = n - 1
                     /\ entry'.frames = entry.frames + 1
                     /\ out' = denormal_fix(y.ret)
                     /\ state1' = y.state1 /\ state4' = y.state4
                     /\ feedback_sample' = y.feedback_sample)
            /\ (samples' = samples => UNCHANGED << filt, out >>)
            /\ (pc = "perform" /\ pc' = "idle" =>
                 n = 0 /\ entry.frames = entry.sampleframes) ]_vars
    /\ (pc = "perform" ~> pc = "idle")

\* a call with three frames has processed all three and is about to return
C12_Witness ==
    pc = "perform" /\ entry.sampleframes = 3 /\ entry.frames = 3 /\ n = 0

\* C13: for a positive sample rate and every cutoff in [20, 20000] the g
\* that compute_filter_coefficients yields is strictly below 1.0, and of two
\* calls at the same sample rate the one with the higher cutoff never yields
\* the lower g, also where the cutoff is clamped to 0.45 * sr inside.
C13_GainBelowOneAndMonotone ==
    /\ [](co_calls > 0 => IsFinite(co_g) /\ co_g < SCALE)
    /\ [][ co_calls > 0 /\ co_sr' = co_sr /\ co_cutoff' >= co_cutoff =>
              co_g' >= co_g ]_vars

\* C14: a newly constructed instance, before any operation on it, has its
\* four pole states and its feedback memory at zero and its three streaming
\* flags clear, whatever the creation arguments; made with no creation
\* arguments it holds cutoff 1000, resonance 0.5 and gain 1.0.
C14_FreshInstance ==
    ops = 0 /\ samples = 0 =>
        /\ \A v \in AllStates : v = 0
        /\ cutoff_has_signal = 0 /\ resonance_has_signal = 0 /\ gain_has_signal = 0
        /\ (ssm2044_new(sr, << >>) =>
              /\ cutoff_float = 1000 * SCALE
              /\ 2 * resonance_float = SCALE
              /\ gain_float = SCALE)

\* the instance made by [ssm2044~], with no creation arguments
C14_Witness ==
    /\ ops = 0 /\ samples = 0 /\ ssm2044_new(sr, << >>)
    /\ cutoff_float = 1000 * SCALE /\ state1 = 0 /\ feedback_sample = 0

\* tanh(v * drive) / drive for a positive drive
Saturate(v, drive) == FDiv(tanh(FMul(v, drive)), drive)
\* s + g * (in - s)
Pole(s, gg, in) == FAdd(s, FMul(gg, FSub(in, s)))

Between(v, a, b) == (a <= v /\ v <= b) \/ (b <= v /\ v <= a)

\* C16: with k = 0, after a unit impulse into the zero-initialized filter, no
\* output sample is larger in magnitude than the one before it.
C16_ImpulseDecays ==
    [][ samples >= 1 /\ samples' = samples + 1 => Abs(out') <= Abs(out) ]_vars

\* C16, as it holds: with k = 0, after a unit impulse into the
\* zero-initialized filter, every stage's output lies between the stage's
\* previous state and its input (no stage overshoots), the first pole's state
\* decays from the impulse sample onward, no output exceeds the saturated
\* impulse tanh(1.5) / 1.5, and the output decays from the impulse sample
\* onward when g >= 0.75; for a smaller g the output first rises.
C16_ImpulseStagesDoNotOvershoot ==
    [][ samples' = samples + 1 =>
          /\ k' = 0
          /\ Between(state1', state1, Saturate(audio', INPUT_DRIVE))
          /\ Between(state2', state2, state1')
          /\ Between(state3', state3, state2')
          /\ Between(state4', state4, state3')
          /\ 0 <= out' /\ out' <= Saturate(SCALE, INPUT_DRIVE)
          /\ (samples >= 1 => state1' <= state1)
          /\ (samples >= 1 /\ 4 * g' >= 3 * SCALE => out' <= out) ]_vars

\* the second output sample of an impulse response with g below 0.75
C16_Witness ==
    /\ samples = 2 /\ audio = 0 /\ k = 0 /\ out > 0 /\ 4 * g < 3 * SCALE
    /\ state1 > state4

\* C17: within one perform64 call a parameter with no signal connected is
\* resolved to the same value in every frame, the one held when the block
\* started, whatever control events arrive during the block: from the
\* second frame of a block on, the value resolved is that of the frame
\* before.
C17_HeldFixedWithinBlock ==
    [][ samples' = samples + 1 /\ entry.frames >= 1 =>
          /\ (cutoff_has_signal = 0 => cutoff' = cutoff)
          /\ (resonance_has_signal = 0 => resonance' = resonance)
          /\ (gain_has_signal = 0 => gain' = gain) ]_vars

\* a float or an int message arrives: the step is one of ssm2044_float or
\* ssm2044_int at some inlet
ControlEvent ==
    \E inlet \in Inlets :
        \/ \E f \in FloatValues : ssm2044_float(inlet, f)
        \/ \E m \in IntValues : ssm2044_int(inlet, m)

\* C18: the three streaming flags are left as they are by every step of
\* perform64 (entry, a frame with its process_sample call, return), by every
\* float and int message and by every step taken while perform64 is inside a
\* block: only construction and dsp64 write them.
C18_FlagsWrittenByDspOnly ==
    [][ ( \/ pc = "perform" \/ pc' # pc
          \/ samples' # samples
          \/ held' # held
          \/ ControlEvent ) => UNCHANGED flags ]_vars

\* dsp64 has set the flags to 1, 2, 1; an int message at inlet 3 and a frame
\* came after it and the flags are as dsp64 left them
C18_Witness ==
    /\ samples > 0 /\ gain_float = 0
    /\ cutoff_has_signal = 1 /\ resonance_has_signal = 2 /\ gain_has_signal = 1

\* what a message at the inlet may change: the held scalar of that inlet
\* and nothing else of the object
EventEffect(inlet) ==
    /\ UNCHANGED << state1, state2, state3, state4, feedback_sample, g, k >>
    /\ UNCHANGED << sr, sr_inv >>
    /\ UNCHANGED << cutoff_has_signal, resonance_has_signal, gain_has_signal >>
    /\ (inlet # 1 => cutoff_float' = cutoff_float)
    /\ (inlet # 2 => resonance_float' = resonance_float)
    /\ (inlet # 3 => gain_float' = gain_float)

\* C19: a float or int message changes at most the held scalar of the inlet
\* it arrives at (1 cutoff, 2 resonance, 3 gain), nothing at inlet 0, and
\* never the pole states, the feedback memory, g, k, the sample rate or the
\* flags; an int message with value m does what a float message with value
\* m does.
C19_EventWritesOneHeldScalar ==
    [][ \A inlet \in Inlets :
          /\ \A f \in CtlFloats : ssm2044_float(inlet, f) => EventEffect(inlet)
          /\ \A m \in CtlInts :
                ssm2044_int(inlet, m) =>
                    EventEffect(inlet) /\ ssm2044_float(inlet, m * SCALE) ]_vars

\* after a frame of audio, a float at inlet 2 has set the resonance to 0.25,
\* a value no creation argument gave, while cutoff and gain are at their
\* defaults and the filter state is as the frame left it
C19_Witness ==
    /\ samples > 0 /\ state1 # 0 /\ ops = 2
    /\ 4 * resonance_float = SCALE /\ cutoff_float = 1000 * SCALE /\ gain_float = SCALE

\* C20: after construction with any creation arguments and after any
\* float and int messages the held scalars are within their ranges:
\* cutoff_float in [20, 20000], resonance_float and gain_float in [0, 4].
C20_HeldScalarsInRange ==
    /\ 20 * SCALE <= cutoff_float /\ cutoff_float <= 20000 * SCALE
    /\ 0 <= resonance_float /\ resonance_float <= 4 * SCALE
    /\ 0 <= gain_float /\ gain_float <= 4 * SCALE

\* three messages with values out of range, 50000 at inlet 1 and -1 at
\* inlets 2 and 3, have left the nearest boundaries in the held scalars
C20_Witness ==
    /\ ops = 3 /\ samples = 0
    /\ cutoff_float = 20000 * SCALE /\ resonance_float = 0 /\ gain_float = 0

\* C23: with no control events in between, processing n frames in one
\* ssm2044_perform64 call yields the same output samples and the same final
\* pole states, feedback memory, g and k as processing the same frames in two
\* consecutive calls of m and n - m frames, for every 0 <= m <= n, whichever
\* parameters are streaming.
C23_BlockSizeIndependent == sp_calls > 0 => sp_one = sp_two

\* three frames split inside the block, on a filter that a frame has already
\* excited, with the resonance streaming and the cutoff held: both ways leave
\* the same samples and a filter that rings
C23_Witness ==
    /\ sp_calls > 0 /\ Len(sp_frames) = 3 /\ 0 < sp_m /\ sp_m < 3
    /\ samples > 0 /\ state4 # 0
    /\ cutoff_has_signal = 0 /\ resonance_has_signal # 0
    /\ sp_one = sp_two
    /\ Len(sp_one.outs) = 3 /\ sp_one.outs[3] # 0
    /\ sp_one.x.feedback_sample # 0 /\ sp_one.x.k > 0
    /\ sp_one.x.state1 # state1

\* C21: from a freshly constructed instance, as long as input * gain is zero
\* in every frame, every output sample is exactly 0 and the four pole
\* states and the feedback memory stay exactly 0, whatever the cutoff, the
\* resonance (4 included) and the sample rate.
C21_ZeroIsFixedPoint == out = 0 /\ filtered = 0 /\ \A v \in AllStates : v = 0

\* two silent frames at resonance 4 and a nonzero g, the second with a
\* nonzero input under a gain of zero: the feedback gain is 16 and the
\* filter is at rest
C21_Witness ==
    /\ samples > 1 /\ audio = SCALE /\ gain = 0
    /\ k = 16 * SCALE /\ g > 0
    /\ out = 0 /\ \A v \in AllStates : v = 0

\* C22: whenever a frame computes the coefficients, the stored reciprocal is
\* 1 / sr for the stored sample rate sr, also when dsp64 changes the sample
\* rate while perform64 is running.
C22_RateAndInverseAgree ==
    [][ samples' = samples + 1 => sr_inv = FRecip(sr) ]_vars

====
